---- MODULE Spec2Model ----
(***************************************************************************)
(* Model of the commit-message rewrite pipeline of commit_diff:            *)
(* main.py (main, RepositoryUpdater, user_confirms_rewrite,                *)
(* save_commit_messages_to_log) and OCDG/utils.py (run_git_command,        *)
(* generate_commit_multi, combine_messages, generate_commit_description).  *)
(*                                                                         *)
(* Strings are modelled at the granularity the code observes them:         *)
(*   - a message is a sequence of lines (the empty sequence is "");        *)
(*   - a diff is known by its length only, and a chunk by its character    *)
(*     offsets, because generate_commit_multi slices by offset;            *)
(*   - the refs backup file is a set holding no element (no file) or the   *)
(*     one snapshot the file describes.                                    *)
(***************************************************************************)
EXTENDS Integers, Sequences, FiniteSets, TLC

\* ------------------------------------------------------------------ bounds
MaxCommits == 2          \* commits in the loaded history
MaxDiffLen == 15000      \* longest filtered diff handed to generation
MaxPrompts == 2          \* answers read at one confirmation prompt
MaxDiffLines == 3        \* lines of a diff given to filter_diff on its own

\* --------------------------------------------------------- program constants
ChunkSize == 6000        \* utils.py:73  diff[i:i + 6000], range(0, len(diff), 6000)
Threshold == 6000        \* utils.py:130 len(diff) >= 6000

\* utils.py:1-5 imports logging, subprocess, os, loguru and typing only: the
\* name json is bound nowhere in the module, so every json.loads, json.dumps
\* and every evaluation of json.JSONDecodeError raises NameError.
JsonImported == FALSE

\* ------------------------------------------------------------- repository
Refs == {"refs/heads/main", "refs/tags/v1"}
Objs == {"a", "b"}
RewrittenObj == "r"
Snapshots == [Refs -> Objs]
Hashes == [n \in 1..MaxCommits |-> IF n = 1 THEN "h1" ELSE IF n = 2 THEN "h2" ELSE "h3"]
Messages == {<<"subj">>, <<"subj", "body">>}
DiffLens == {0, Threshold - 1, Threshold, MaxDiffLen}

\* Python None against a str value
None == [none |-> TRUE, text |-> <<>>]
Str(t) == [none |-> FALSE, text |-> t]
Truthy(v) == ~v.none /\ v.text # <<>>

Min(a, b) == IF a < b THEN a ELSE b

VARIABLES
  pc,                \* position of main()
  outcome,           \* how main() ended ("running" until it returns)
  restore,           \* args.restore
  force_push,        \* args.force_push
  refs,              \* reference name -> target object, in the repository
  refs_backup_file,  \* .git/refs_backup: {} when absent, {snapshot} when present
  commits,           \* commit_history.commits
  diffs,             \* filtered diff length of each commit, were it fetched
  idx,               \* commit the GENERATE loop is at
  calls,             \* generation calls issued, per commit, in order
  message_map,       \* message_map of the generated filter script
  script_written,    \* generate_filter_script has run
  emitted,           \* what the filter script printed per commit
  audit_log,         \* commit_messages.log
  log_written,       \* save_commit_messages_to_log wrote its records
  shown,             \* commits printed at the confirmation gate
  confirm,           \* answer taken at the rewrite confirmation
  push_confirm,      \* answer taken at the force-push confirmation
  prompts,           \* invalid answers read at the current prompt
  pushed,            \* "no", "ok" or "failed"
  filter_branch,     \* "no", or the outcome of the git filter-branch run
  backup_at_rewrite, \* refs_backup_file when git filter-branch was started
  refs_at_rewrite,   \* refs when git filter-branch was started
  refs_at_backup,    \* refs at the last backup_refs call: {} or {snapshot}
  backup_calls,      \* backup_refs calls made
  last_restore,      \* record of the restore_refs call made, if any
  fd_stage,          \* filter_diff on its own: "idle", "input", "once", "twice"
  fd_in,             \* the diff given to filter_diff
  fd_out,            \* filter_diff(fd_in)
  fd_again,          \* filter_diff(fd_out)
  ck_stage,          \* the chunking on its own: "idle", "input", "done"
  ck_len,            \* len(diff) of the diff to chunk
  ck_chunks          \* diff_chunks of generate_commit_multi

args == <<restore, force_push>>
repo == <<refs, refs_backup_file>>
hist == <<commits, diffs>>
gen == <<idx, calls>>
gate == <<shown, confirm, prompts>>
rw == <<message_map, script_written, emitted, audit_log, log_written, filter_branch,
        backup_at_rewrite, refs_at_rewrite>>
push == <<push_confirm, pushed>>
bk == <<refs_at_backup, backup_calls, last_restore>>
pure == <<fd_stage, fd_in, fd_out, fd_again, ck_stage, ck_len, ck_chunks>>
vars == <<pc, outcome, args, repo, hist, gen, gate, rw, push, bk, pure>>

\* ------------------------------------------------------ run_git_command
\* utils.py:10 runs ["git"] + command with no shell: ">" and "<" and the file
\* name that follows are handed to git as further arguments.

\* git for-each-ref --format='%(refname)' refs/heads/ refs/remotes/ refs/tags/
\*   ">" <file>: the two extra words are two more patterns; the listing goes to
\* the captured stdout, which backup_refs drops. The file is not touched.
ForEachRefToFile(file, rs) == file

\* The same command with the file fed to it by a shell: every reference is set
\* to the target the file records.
UpdateRefApplied(rs, file) == [ok |-> TRUE, refs |-> file]

\* git update-ref --stdin "<" <file>: --stdin with further arguments is a usage
\* error (exit 129), so check=True raises and no reference is updated.
UpdateRefFromFile(rs, file) == [ok |-> FALSE, refs |-> rs]

NoRestore == [called |-> FALSE, had_file |-> FALSE, update_ref |-> FALSE,
              warned |-> FALSE, raised |-> FALSE,
              refs_before |-> {}, refs_after |-> {}]

\* RepositoryUpdater.backup_refs: git_ok is whether the git process exits 0.
BackupRefs(rs, file, git_ok) ==
  [file |-> IF git_ok THEN ForEachRefToFile(file, rs) ELSE file,
   raised |-> ~git_ok]

\* restore_refs without the os.path.exists test of main.py:92: git update-ref
\* is run on the missing file and fails.
RestoreRefsNoExistsTest(rs, file) ==
  [refs |-> rs, file |-> {},
   log |-> [called |-> TRUE, had_file |-> file # {}, update_ref |-> TRUE,
            warned |-> FALSE, raised |-> TRUE,
            refs_before |-> {rs}, refs_after |-> {rs}]]

\* RepositoryUpdater.restore_refs, its finally clause included.
RestoreRefs(rs, file) ==
  IF file = {}
  THEN [refs |-> rs, file |-> file,
        log |-> [called |-> TRUE, had_file |-> FALSE, update_ref |-> FALSE,
                 warned |-> TRUE, raised |-> FALSE,
                 refs_before |-> {rs}, refs_after |-> {rs}]]
  ELSE LET u == UpdateRefFromFile(rs, CHOOSE s \in file : TRUE)
       IN [refs |-> u.refs, file |-> {},
           log |-> [called |-> TRUE, had_file |-> TRUE, update_ref |-> TRUE,
                    warned |-> FALSE, raised |-> ~u.ok,
                    refs_before |-> {rs}, refs_after |-> {u.refs}]]

\* ------------------------------------------------ text-generation backend
\* What client.generate_text does on one call: raise, return text that is not
\* JSON, or return a JSON object whose title and detailed message may be
\* missing or empty ("" stands for both).
NoDict == [title |-> "", body |-> ""]
Resps ==
  {[kind |-> "raise", title |-> "", body |-> ""],
   [kind |-> "bad", title |-> "", body |-> ""]} \cup
  {[kind |-> "json", title |-> t, body |-> b] : t \in {"", "T"}, b \in {"", "B"}}

\* json.loads(text) as the module can evaluate it.
JsonLoads(resp) ==
  IF ~JsonImported THEN [exc |-> "NameError", val |-> NoDict]
  ELSE IF resp.kind = "bad" THEN [exc |-> "JSONDecodeError", val |-> NoDict]
  ELSE [exc |-> "none", val |-> [title |-> resp.title, body |-> resp.body]]

\* range(start, stop, step)
RECURSIVE Range(_, _, _)
Range(start, stop, step) ==
  IF start >= stop THEN <<>> ELSE <<start>> \o Range(start + step, stop, step)

\* The chunking with one chunk per whole multiple of the chunk size, as
\* range(len(diff) // 6000) would give: the tail of the diff is dropped.
DiffChunksWholeOnly(len) ==
  [k \in 1..(len \div ChunkSize) |->
     [start |-> (k - 1) * ChunkSize, stop |-> k * ChunkSize]]

\* utils.py:73: diff_chunks = [diff[i:i + 6000] for i in range(0, len(diff), 6000)]
DiffChunks(len) ==
  LET starts == Range(0, len, ChunkSize)
  IN [k \in 1..Len(starts) |->
        [start |-> starts[k], stop |-> Min(starts[k] + ChunkSize, len)]]

\* How one generation call ends: the client raised, or what json.loads made
\* of the text it returned.
CallResult(resp) ==
  IF resp.kind = "raise" THEN "ClientError"
  ELSE IF JsonLoads(resp).exc = "none" THEN "ok" ELSE JsonLoads(resp).exc

\* The log entry of the call for chunk k (enumerate's i is k - 1).
ChunkCall(chunks, k, resp) ==
  [kind |-> "chunk", index |-> k - 1, partial |-> (k - 1 # Len(chunks) - 1),
   start |-> chunks[k].start, stop |-> chunks[k].stop, input |-> <<>>,
   result |-> CallResult(resp), value |-> JsonLoads(resp).val]

\* utils.py:75-101, the loop over the chunks from chunk k on; rs[n] is the
\* backend's behaviour on the n-th call made for this commit.
RECURSIVE MultiLoop(_, _, _, _, _)
MultiLoop(chunks, k, rs, msgs, log) ==
  IF k > Len(chunks) THEN [exc |-> "none", messages |-> msgs, calls |-> log]
  ELSE LET log2 == Append(log, ChunkCall(chunks, k, rs[k]))
           j == JsonLoads(rs[k])
       IN IF rs[k].kind = "raise"
          THEN [exc |-> "ClientError", messages |-> msgs, calls |-> log2]
          ELSE IF j.exc = "NameError"
          THEN [exc |-> "NameError", messages |-> msgs, calls |-> log2]
          ELSE IF j.exc = "JSONDecodeError"
          THEN MultiLoop(chunks, k + 1, rs, msgs, log2)
          ELSE MultiLoop(chunks, k + 1, rs, Append(msgs, j.val), log2)

generate_commit_multi(len, rs) == MultiLoop(DiffChunks(len), 1, rs, <<>>, <<>>)

\* utils.py:103-125: json.dumps in the prompt comes before the call.
combine_messages(multi_commit, resp) ==
  LET call == [kind |-> "combine", index |-> 0, partial |-> FALSE,
               start |-> 0, stop |-> 0, input |-> multi_commit,
               result |-> CallResult(resp), value |-> JsonLoads(resp).val]
      j == JsonLoads(resp)
  IN IF ~JsonImported THEN [exc |-> "NameError", val |-> NoDict, calls |-> <<>>]
     ELSE IF resp.kind = "raise"
     THEN [exc |-> "ClientError", val |-> NoDict, calls |-> <<call>>]
     ELSE IF j.exc = "JSONDecodeError"
     THEN [exc |-> "none", val |-> NoDict, calls |-> <<call>>]
     ELSE [exc |-> j.exc, val |-> j.val, calls |-> <<call>>]

\* str.strip() of "\n".join(lines): empty lines at either end go.
RECURSIVE Strip(_)
Strip(lines) ==
  IF lines = <<>> THEN <<>>
  ELSE IF Head(lines) = "" THEN Strip(Tail(lines))
  ELSE IF lines[Len(lines)] = "" THEN Strip(SubSeq(lines, 1, Len(lines) - 1))
  ELSE lines

\* utils.py:160-167
NewDescription(generated_message) ==
  Str(Strip(<<generated_message.title, "", generated_message.body>>))

\* utils.py:131-136 and 160-170: the branch taken for an oversized diff.
MultiPath(len, rs) ==
  LET m == generate_commit_multi(len, rs)
      c == combine_messages(m.messages, rs[Len(m.calls) + 1])
  IN IF m.exc # "none" THEN [ret |-> None, calls |-> m.calls]
     ELSE IF m.messages = <<>> THEN [ret |-> None, calls |-> m.calls]
     ELSE IF c.exc # "none" THEN [ret |-> None, calls |-> m.calls \o c.calls]
     ELSE [ret |-> NewDescription(c.val), calls |-> m.calls \o c.calls]

\* utils.py:137-170: the branch taken for a diff below the threshold.
SinglePath(len, rs) ==
  LET call == [kind |-> "single", index |-> 0, partial |-> FALSE,
               start |-> 0, stop |-> len, input |-> <<>>,
               result |-> CallResult(rs[1]), value |-> JsonLoads(rs[1]).val]
  IN IF call.result # "ok" THEN [ret |-> None, calls |-> <<call>>]
     ELSE [ret |-> NewDescription(call.value), calls |-> <<call>>]

\* The same with the length test gone: every diff is chunked.
generate_commit_description_chunk_all(len, rs) == MultiPath(len, rs)

\* utils.py:127-170: the value returned and the generation calls issued.
generate_commit_description(len, rs) ==
  IF len >= Threshold THEN MultiPath(len, rs) ELSE SinglePath(len, rs)

\* generation calls one commit can need: one per chunk and the combine call
NCalls(len) == IF len >= Threshold THEN Len(DiffChunks(len)) + 1 ELSE 1

\* main.py:307-309: what generate_commit_description can return for a diff of
\* each length, over every way the backend can behave on the calls it gets.
GenerationOutcomes ==
  [len \in DiffLens |->
     {generate_commit_description(len, rs) : rs \in [1..NCalls(len) -> Resps]}]

\* ------------------------------------------------------------ filter_diff
\* A string is the sequence of its characters; a text is the sequence of the
\* strings between its "\n" characters, so "a\n" is <<a, "">> and "" is <<"">>.
StartsWith(s, p) == Len(s) >= Len(p) /\ SubSeq(s, 1, Len(p)) = p
EndsWith(s, p) == Len(s) >= Len(p) /\ SubSeq(s, Len(s) - Len(p) + 1, Len(s)) = p
FoundFrom(s, p, from) ==
  \E i \in from..(Len(s) - Len(p) + 1) : SubSeq(s, i, i + Len(p) - 1) = p
Contains(s, p) == FoundFrom(s, p, 1)

\* str.splitlines() and "\n".join(lines)
SplitLines(text) ==
  IF text[Len(text)] = <<>> THEN SubSeq(text, 1, Len(text) - 1) ELSE text
Join(lines) == IF lines = <<>> THEN << <<>> >> ELSE lines

\* main.py:21-26, matched with re.search. No comma follows r'.idea.*', so it
\* and r'node_modules.*' are one pattern, r'.idea.*node_modules.*'.
MatchesSectionPattern(line) ==
  \/ Contains(line, <<"v", "e", "n", "v">>)
  \/ \E i \in 1..Len(line) :
       /\ StartsWith(SubSeq(line, i + 1, Len(line)), <<"i", "d", "e", "a">>)
       /\ FoundFrom(line, <<"n", "o", "d", "e", "_", "m", "o", "d", "u", "l", "e", "s">>, i + 5)
  \/ Contains(line, <<"_", "_", "p", "y", "c", "a", "c", "h", "e", "_", "_">>)

\* main.py:29-40: the extensions of the r'.*\.(...)$' patterns
IgnoredExtensions ==
  {<<"p", "n", "g">>,
   <<"j", "p", "g">>,
   <<"j", "p", "e", "g">>,
   <<"g", "i", "f">>,
   <<"b", "m", "p">>,
   <<"t", "i", "f", "f">>,
   <<"s", "v", "g">>,
   <<"i", "c", "o">>,
   <<"r", "a", "w">>,
   <<"p", "s", "d">>,
   <<"a", "i">>,
   <<"x", "l", "s", "x">>,
   <<"x", "l", "s">>,
   <<"d", "o", "c", "x">>,
   <<"p", "p", "t", "x">>,
   <<"p", "d", "f">>,
   <<"p", "a", "c", "k">>,
   <<"i", "d", "x">>,
   <<"D", "S", "_", "S", "t", "o", "r", "e">>,
   <<"s", "y", "s">>,
   <<"i", "n", "i">>,
   <<"b", "a", "t">>,
   <<"p", "l", "i", "s", "t">>,
   <<"e", "x", "e">>,
   <<"d", "l", "l">>,
   <<"s", "o">>,
   <<"b", "i", "n">>,
   <<"z", "i", "p">>,
   <<"r", "a", "r">>,
   <<"7", "z">>,
   <<"t", "a", "r">>,
   <<"g", "z">>,
   <<"b", "z", "2">>,
   <<"m", "p", "3">>,
   <<"w", "a", "v">>,
   <<"a", "a", "c">>,
   <<"f", "l", "a", "c">>,
   <<"m", "p", "4">>,
   <<"a", "v", "i">>,
   <<"m", "o", "v">>,
   <<"w", "m", "v">>,
   <<"f", "l", "v">>,
   <<"d", "b">>,
   <<"s", "q", "l", "i", "t", "e", "d", "b">>,
   <<"m", "d", "b">>,
   <<"t", "t", "f">>,
   <<"o", "t", "f">>,
   <<"w", "o", "f", "f">>,
   <<"w", "o", "f", "f", "2">>,
   <<"t", "m", "p">>,
   <<"t", "e", "m", "p">>,
   <<"s", "w", "p">>,
   <<"s", "w", "o">>,
   <<"o">>,
   <<"o", "b", "j">>,
   <<"p", "y", "c">>,
   <<"c", "l", "a", "s", "s">>,
   <<"c", "e", "r">>,
   <<"p", "e", "m">>,
   <<"c", "r", "t">>,
   <<"k", "e", "y">>,
   <<"c", "o", "n", "f">>,
   <<"c", "f", "g">>,
   <<"c", "o", "n", "f", "i", "g">>,
   <<"e", "n", "v">>,
   <<"p", "y", "o">>,
   <<"e", "r", "r">>,
   <<"s", "t", "d", "e", "r", "r">>,
   <<"s", "t", "d", "o", "u", "t">>,
   <<"l", "o", "g">>,
   <<"c", "a", "c", "h", "e">>,
   <<"c", "a", "c", "h", "e", "d">>}

\* main.py:38: r'(package-lock\.json|poetry\.lock|yarn\.lock|Gemfile\.lock)'
IgnoredLockNames ==
  {<<"p", "a", "c", "k", "a", "g", "e", "-", "l", "o", "c", "k", ".", "j", "s", "o", "n">>,
   <<"p", "o", "e", "t", "r", "y", ".", "l", "o", "c", "k">>,
   <<"y", "a", "r", "n", ".", "l", "o", "c", "k">>,
   <<"G", "e", "m", "f", "i", "l", "e", ".", "l", "o", "c", "k">>}

\* main.py:29-40, matched with re.search against the extracted path
MatchesLinePattern(file_path) ==
  \/ \E e \in IgnoredExtensions : EndsWith(file_path, <<".">> \o e)
  \/ Contains(file_path, <<"n", "o", "d", "e", "_", "m", "o", "d", "u", "l", "e", "s">>)
  \/ \E l \in IgnoredLockNames : Contains(file_path, l)

IsBlank(c) == c = " " \/ c = "\t"
HasBlankFrom(line, from) == \E i \in from..Len(line) : IsBlank(line[i])
FirstBlankFrom(line, from) ==
  CHOOSE i \in from..Len(line) :
    IsBlank(line[i]) /\ \A j \in from..(i - 1) : ~IsBlank(line[j])

\* str.strip(), for the blanks the model has
RECURSIVE StripBlanks(_)
StripBlanks(str) ==
  IF str = <<>> THEN <<>>
  ELSE IF IsBlank(Head(str)) THEN StripBlanks(Tail(str))
  ELSE IF IsBlank(str[Len(str)]) THEN StripBlanks(SubSeq(str, 1, Len(str) - 1))
  ELSE str

\* main.py:199: the optional prefixes of the path pattern
PathPrefixes ==
  {<<"+", "+", "+", " ">>,
   <<"-", "-", "-", " ">>,
   <<"d", "i", "f", "f", " ", "-", "-", "g", "i", "t", " ">>,
   <<"i", "n", "d", "e", "x", " ">>,
   <<"B", "i", "n", "a", "r", "y", " ", "f", "i", "l", "e", "s", " ">>}

\* main.py:199-201: re.search(r'^(?:...)?(.*?)[ \t]', line), group 1 stripped.
\* The prefix is taken when a blank follows somewhere after it; otherwise the
\* match backtracks to no prefix, and group 1 runs to the first blank of the
\* line. found is FALSE when the line holds no blank at all.
ExtractPath(line) ==
  LET pre == {q \in PathPrefixes : StartsWith(line, q) /\ HasBlankFrom(line, Len(q) + 1)}
      from == IF pre = {} THEN 1 ELSE Len(CHOOSE q \in pre : TRUE) + 1
  IN IF ~HasBlankFrom(line, 1) THEN [found |-> FALSE, file_path |-> <<>>]
     ELSE [found |-> TRUE,
           file_path |-> StripBlanks(SubSeq(line, from, FirstBlankFrom(line, from) - 1))]

IsSectionHeader(line) == StartsWith(line, <<"d", "i", "f", "f", " ", "-", "-", "g", "i", "t", " ">>)

\* The loop without line 193: a header that matches no pattern is kept but
\* leaves skip_section as it was.
RECURSIVE FilterLinesNoReset(_, _, _, _)
FilterLinesNoReset(lines, n, skip_section, filtered_lines) ==
  IF n > Len(lines) THEN filtered_lines
  ELSE LET line == lines[n]
           m == ExtractPath(line)
       IN IF IsSectionHeader(line)
          THEN IF MatchesSectionPattern(line)
               THEN FilterLinesNoReset(lines, n + 1, TRUE, filtered_lines)
               ELSE FilterLinesNoReset(lines, n + 1, skip_section, Append(filtered_lines, line))
          ELSE IF skip_section
               THEN FilterLinesNoReset(lines, n + 1, skip_section, filtered_lines)
               ELSE IF m.found /\ MatchesLinePattern(m.file_path)
                    THEN FilterLinesNoReset(lines, n + 1, skip_section, filtered_lines)
                    ELSE FilterLinesNoReset(lines, n + 1, skip_section, Append(filtered_lines, line))

\* main.py:185-205: the loop, from line n on
RECURSIVE FilterLines(_, _, _, _)
FilterLines(lines, n, skip_section, filtered_lines) ==
  IF n > Len(lines) THEN filtered_lines
  ELSE LET line == lines[n]
           m == ExtractPath(line)
       IN IF IsSectionHeader(line)
          THEN IF MatchesSectionPattern(line)
               THEN FilterLines(lines, n + 1, TRUE, filtered_lines)
               ELSE FilterLines(lines, n + 1, FALSE, Append(filtered_lines, line))
          ELSE IF skip_section
               THEN FilterLines(lines, n + 1, skip_section, filtered_lines)
               ELSE IF m.found /\ MatchesLinePattern(m.file_path)
                    THEN FilterLines(lines, n + 1, skip_section, filtered_lines)
                    ELSE FilterLines(lines, n + 1, skip_section, Append(filtered_lines, line))

\* main.py:180-207
filter_diff(diff) == Join(FilterLines(SplitLines(diff), 1, FALSE, <<>>))

\* The lines the diffs of the model are made of.
\* diff --git a/image.png b/image.png
HdrPng == <<"d", "i", "f", "f", " ", "-", "-", "g", "i", "t", " ", "a", "/", "i", "m", "a", "g", "e", ".", "p", "n", "g", " ", "b", "/", "i", "m", "a", "g", "e", ".", "p", "n", "g">>
\* Binary files a/image.png and b/image.png differ
BinPng == <<"B", "i", "n", "a", "r", "y", " ", "f", "i", "l", "e", "s", " ", "a", "/", "i", "m", "a", "g", "e", ".", "p", "n", "g", " ", "a", "n", "d", " ", "b", "/", "i", "m", "a", "g", "e", ".", "p", "n", "g", " ", "d", "i", "f", "f", "e", "r">>
\* diff --git a/venv/x.py b/venv/x.py
HdrVenv == <<"d", "i", "f", "f", " ", "-", "-", "g", "i", "t", " ", "a", "/", "v", "e", "n", "v", "/", "x", ".", "p", "y", " ", "b", "/", "v", "e", "n", "v", "/", "x", ".", "p", "y">>
\* +++ b/image.png
PlusPng == <<"+", "+", "+", " ", "b", "/", "i", "m", "a", "g", "e", ".", "p", "n", "g">>
\* +x = 1
AddedLine == <<"+", "x", " ", "=", " ", "1">>
\* diff --git a/.idea/ws.xml b/.idea/ws.xml
HdrIdea == <<"d", "i", "f", "f", " ", "-", "-", "g", "i", "t", " ", "a", "/", ".", "i", "d", "e", "a", "/", "w", "s", ".", "x", "m", "l", " ", "b", "/", ".", "i", "d", "e", "a", "/", "w", "s", ".", "x", "m", "l">>
\* app.log rotated
LogLine == <<"a", "p", "p", ".", "l", "o", "g", " ", "r", "o", "t", "a", "t", "e", "d">>
EmptyLine == <<>>
DiffLines == {HdrPng, BinPng, HdrVenv, PlusPng, AddedLine, HdrIdea, LogLine, EmptyLine}

\* ------------------------------------------------------------------- Init
CommitRecords(n) == [hash : {Hashes[n]}, message : Messages, new_message : {None}]

\* The functions checked on their own are not running.
PureIdle ==
  /\ fd_stage = "idle" /\ fd_in = << <<>> >> /\ fd_out = << <<>> >> /\ fd_again = << <<>> >>
  /\ ck_stage = "idle" /\ ck_len = 0 /\ ck_chunks = <<>>

Init ==
  /\ PureIdle
  /\ pc = "start"
  /\ outcome = "running"
  /\ restore \in BOOLEAN
  /\ force_push \in BOOLEAN
  /\ refs \in Snapshots
  /\ refs_backup_file \in {{}} \cup {{s} : s \in Snapshots}
  /\ commits \in {c \in [1..MaxCommits -> UNION {CommitRecords(n) : n \in 1..MaxCommits}] :
                     \A n \in 1..MaxCommits : c[n].hash = Hashes[n]}
  /\ diffs \in {d \in [1..MaxCommits -> DiffLens] : d[1] = 0}
  /\ idx = 1
  /\ calls = [n \in 1..MaxCommits |-> <<>>]
  /\ message_map = <<>>
  /\ script_written = FALSE
  /\ emitted = [n \in 1..MaxCommits |-> None]
  /\ audit_log = <<>>
  /\ log_written = FALSE
  /\ shown = {}
  /\ confirm = "none"
  /\ push_confirm = "none"
  /\ prompts = 0
  /\ pushed = "no"
  /\ filter_branch = "no"
  /\ backup_at_rewrite = {}
  /\ refs_at_rewrite = {}
  /\ refs_at_backup = {}
  /\ backup_calls = 0
  /\ last_restore = NoRestore

\* ------------------------------------------------------------ main(): 1.
\* The restore-only branch without its return statements: the run goes on to
\* load the history.
RestoreOnlyFallsThrough ==
  /\ pc = "start" /\ restore
  /\ LET r == RestoreRefs(refs, refs_backup_file)
     IN /\ refs' = r.refs
        /\ refs_backup_file' = r.file
        /\ last_restore' = r.log
        /\ outcome' = outcome
  /\ pc' = "load"
  /\ UNCHANGED pure
  /\ UNCHANGED <<args, hist, gen, gate, rw, push, refs_at_backup, backup_calls>>

\* main.py:255-263: --restore goes to restore_refs and returns either way.
RestoreOnly ==
  /\ pc = "start" /\ restore
  /\ LET r == RestoreRefs(refs, refs_backup_file)
     IN /\ refs' = r.refs
        /\ refs_backup_file' = r.file
        /\ last_restore' = r.log
        /\ outcome' = IF r.log.raised THEN "restore_failed" ELSE "restored"
  /\ pc' = "done"
  /\ UNCHANGED pure
  /\ UNCHANGED <<args, hist, gen, gate, rw, push, refs_at_backup, backup_calls>>

\* main.py:265-270: the backup taken before anything else.
InitialBackup ==
  /\ pc = "start" /\ ~restore
  /\ \E git_ok \in BOOLEAN :
       LET b == BackupRefs(refs, refs_backup_file, git_ok)
       IN /\ refs_backup_file' = b.file
          /\ pc' = IF b.raised THEN "done" ELSE "load"
          /\ outcome' = IF b.raised THEN "backup_failed" ELSE outcome
  /\ refs_at_backup' = {refs}
  /\ backup_calls' = backup_calls + 1
  /\ UNCHANGED pure
  /\ UNCHANGED <<args, refs, hist, gen, gate, rw, push, last_restore>>

\* ------------------------------------------------------------ main(): 2-3.
\* Loading without the return of main.py:287-288: after a failed get_commits
\* the run goes on to the generation loop.
LoadHistoryIgnoringFailure ==
  /\ pc = "load"
  /\ \E r \in {"ok", "load_failed", "crashed"} :
       /\ pc' = IF r = "crashed" THEN "done" ELSE "generate"
       /\ outcome' = IF r = "ok" THEN outcome ELSE r
  /\ UNCHANGED pure
  /\ UNCHANGED <<args, repo, hist, gen, gate, rw, push, bk>>

\* main.py:272-297: load the history, create the client, find the initial
\* commit. A failure of get_commits is caught (return); create_client and
\* rev-list are outside any try and end the process with a traceback.
LoadHistory ==
  /\ pc = "load"
  /\ \E r \in {"ok", "load_failed", "crashed"} :
       /\ pc' = IF r = "ok" THEN "generate" ELSE "done"
       /\ outcome' = IF r = "ok" THEN outcome ELSE r
  /\ UNCHANGED pure
  /\ UNCHANGED <<args, repo, hist, gen, gate, rw, push, bk>>

\* ------------------------------------------------------------ main(): 4.
initial_commit_hash == Hashes[1]

\* main.py:298-323, one iteration of the loop.
ProcessCommit ==
  /\ pc = "generate" /\ idx <= Len(commits)
  /\ LET commit == commits[idx]
         len == IF commit.hash = initial_commit_hash THEN 0 ELSE diffs[idx]
     IN \E diff_ok \in BOOLEAN :
          /\ (commit.hash = initial_commit_hash) => diff_ok
          /\ IF ~diff_ok
             THEN /\ pc' = "done"
                  /\ outcome' = "generate_failed"
                  /\ UNCHANGED <<commits, gen>>
             ELSE \E g \in GenerationOutcomes[len] :
                    /\ calls' = [calls EXCEPT ![idx] = g.calls]
                    /\ commits' = IF g.ret.none THEN commits
                                  ELSE [commits EXCEPT ![idx].new_message = g.ret]
                    /\ idx' = idx + 1
                    /\ pc' = IF idx = Len(commits) THEN "confirm" ELSE "generate"
                    /\ outcome' = outcome
  /\ UNCHANGED pure
  /\ UNCHANGED <<args, repo, diffs, gate, rw, push, bk>>

\* ------------------------------------------------------------ main(): 5.
Replaced(cs) == {n \in 1..Len(cs) : Truthy(cs[n].new_message)}

\* The gate with the answer "no" taken for consent as well.
UserConfirmsRewriteIgnoringNo ==
  /\ pc = "confirm"
  /\ shown' = Replaced(commits)
  /\ \E confirmation \in {"yes", "no", "invalid"} :
       IF confirmation = "invalid"
       THEN /\ prompts < MaxPrompts
            /\ prompts' = prompts + 1
            /\ UNCHANGED <<pc, outcome, confirm>>
       ELSE /\ confirm' = confirmation
            /\ prompts' = 0
            /\ pc' = "rewrite"
            /\ outcome' = outcome
  /\ UNCHANGED pure
  /\ UNCHANGED <<args, repo, hist, gen, rw, push, bk>>

\* main.py:42-60 and 326, 368-371: the listing, then one answer read.
UserConfirmsRewrite ==
  /\ pc = "confirm"
  /\ shown' = Replaced(commits)
  /\ \E confirmation \in {"yes", "no", "invalid"} :
       IF confirmation = "invalid"
       THEN /\ prompts < MaxPrompts
            /\ prompts' = prompts + 1
            /\ UNCHANGED <<pc, outcome, confirm>>
       ELSE /\ confirm' = confirmation
            /\ prompts' = 0
            /\ pc' = IF confirmation = "yes" THEN "rewrite" ELSE "done"
            /\ outcome' = IF confirmation = "yes" THEN outcome ELSE "cancelled"
  /\ UNCHANGED pure
  /\ UNCHANGED <<args, repo, hist, gen, rw, push, bk>>

\* ------------------------------------------------- the rewrite, main.py:329-337
\* save_commit_messages_to_log writing the old message in both fields.
LogEntriesOldTwice(cs, n) ==
  [m \in 1..Cardinality({k \in n..Len(cs) : Truthy(cs[k].new_message)}) |->
     LET k == CHOOSE k \in n..Len(cs) :
                /\ Truthy(cs[k].new_message)
                /\ Cardinality({j \in n..k : Truthy(cs[j].new_message)}) = m
     IN [hash |-> cs[k].hash, old |-> cs[k].message, new |-> cs[k].message]]

RECURSIVE LogEntries(_, _)
\* main.py:171-175: the records save_commit_messages_to_log appends
LogEntries(cs, n) ==
  IF n > Len(cs) THEN <<>>
  ELSE (IF Truthy(cs[n].new_message)
        THEN <<[hash |-> cs[n].hash, old |-> cs[n].message,
                new |-> cs[n].new_message.text]>>
        ELSE <<>>) \o LogEntries(cs, n + 1)

\* generate_filter_script without the "if commit.new_message" test of
\* main.py:152: every commit gets an entry, str(None) for a missing message.
generate_filter_script_unguarded(cs) ==
  [h \in {cs[n].hash : n \in 1..Len(cs)} |->
     LET c == CHOOSE c \in {cs[n] : n \in 1..Len(cs)} : c.hash = h
     IN IF c.new_message.none THEN <<"None">> ELSE c.new_message.text]

\* main.py:151-155: the entries generate_filter_script writes into message_map
generate_filter_script(cs) ==
  [h \in {cs[n].hash : n \in Replaced(cs)} |->
     (CHOOSE c \in {cs[n] : n \in Replaced(cs)} : c.hash = h).new_message.text]

\* A replacement of more than one line puts a raw newline inside a '...'
\* literal of the script, which then does not compile.
ScriptValid(map) == \A h \in DOMAIN map : Len(map[h]) <= 1

Line(message, n) == IF Len(message) >= n THEN message[n] ELSE ""

\* main.py:147-163, the generated script run by --msg-filter with the commit's
\* message on stdin: the first line read is the message, the second the "hash".
filter_message(map, message) ==
  LET msg == Line(message, 1)
      commit_hash == Line(message, 2)
  IN IF commit_hash \in DOMAIN map THEN map[commit_hash] ELSE <<msg>>

\* main.py:330-331 and 109-116: audit log, filter script, backup_refs; when
\* backup_refs raises, the except and finally clauses of 131-138.
RewriteBegin ==
  /\ pc = "rewrite"
  /\ \E log_ok \in BOOLEAN :
       /\ audit_log' = IF log_ok THEN audit_log \o LogEntries(commits, 1) ELSE audit_log
       /\ log_written' = log_ok
  /\ message_map' = generate_filter_script(commits)
  /\ script_written' = TRUE
  /\ refs_at_backup' = {refs}
  /\ backup_calls' = backup_calls + 1
  /\ \E git_ok \in BOOLEAN :
       LET b == BackupRefs(refs, refs_backup_file, git_ok)
           r == RestoreRefs(refs, b.file)
       IN IF b.raised
          THEN /\ refs' = r.refs
               /\ refs_backup_file' = {}
               /\ last_restore' = r.log
               /\ pc' = "done"
               /\ outcome' = "rewrite_failed"
               /\ UNCHANGED <<backup_at_rewrite, refs_at_rewrite>>
          ELSE /\ refs_backup_file' = b.file
               /\ backup_at_rewrite' = b.file
               /\ refs_at_rewrite' = {refs}
               /\ pc' = "filter_branch"
               /\ UNCHANGED <<refs, last_restore, outcome>>
  /\ UNCHANGED pure
  /\ UNCHANGED <<args, hist, gen, gate, emitted, filter_branch, push>>

Emitted(map, cs) == [n \in 1..Len(cs) |-> Str(filter_message(map, cs[n].message))]

\* What git filter-branch -f --msg-filter ... --tag-name-filter cat -- HEAD
\* leaves in the references: nothing moves when no message changed or when it
\* dies before the references are written ("fail_clean"); a run whose closing
\* read-tree fails exits non-zero with the references already rewritten
\* ("fail_dirty").
FilterBranchRefs(rs, out, changed) ==
  IF ~changed \/ out = "fail_clean" THEN rs
  ELSE [r \in Refs |-> RewrittenObj]

\* main.py:118-138: the git filter-branch run and what follows it inside
\* rewrite_commit_messages, then main.py:332-340.
FilterBranch ==
  /\ pc = "filter_branch"
  /\ \E out \in {"ok", "fail_clean", "fail_dirty"} :
       LET em == Emitted(message_map, commits)
           changed == \E n \in 1..Len(commits) : em[n].text # commits[n].message
           after == FilterBranchRefs(refs, out, changed)
           r == RestoreRefs(after, refs_backup_file)
       IN /\ (out # "fail_clean") => ScriptValid(message_map)
          /\ (out = "fail_dirty") => changed
          /\ filter_branch' = out
          /\ emitted' = IF out = "fail_clean" THEN emitted ELSE em
          /\ IF out = "ok"
             THEN /\ refs' = after
                  /\ pc' = IF force_push THEN "push_gate" ELSE "done"
                  /\ outcome' = IF force_push THEN outcome ELSE "completed"
                  /\ UNCHANGED last_restore
             ELSE /\ refs' = r.refs
                  /\ last_restore' = r.log
                  /\ pc' = "done"
                  /\ outcome' = "rewrite_failed"
  /\ refs_backup_file' = {}
  /\ UNCHANGED pure
  /\ UNCHANGED <<args, hist, gen, gate, message_map, script_written, audit_log, log_written,
                 backup_at_rewrite, refs_at_rewrite, push, refs_at_backup,
                 backup_calls>>

\* ------------------------------------------------------------ main(): 6.
\* The force-push prompt pushing whatever the answer: "no" pushes as well.
ForcePushConfirmAnyAnswer ==
  /\ pc = "push_gate"
  /\ \E force_confirm \in {"yes", "no", "invalid"} :
       IF force_confirm = "invalid"
       THEN /\ prompts < MaxPrompts
            /\ prompts' = prompts + 1
            /\ UNCHANGED <<pc, outcome, push>>
       ELSE /\ push_confirm' = force_confirm
            /\ prompts' = 0
            /\ pc' = "done"
            /\ \E push_ok \in BOOLEAN :
                 /\ pushed' = IF push_ok THEN "ok" ELSE "failed"
                 /\ outcome' = IF push_ok THEN "completed" ELSE "push_failed"
  /\ UNCHANGED pure
  /\ UNCHANGED <<args, repo, hist, gen, shown, confirm, rw, bk>>

\* main.py:340-367: one answer read at the force-push prompt.
ForcePushConfirm ==
  /\ pc = "push_gate"
  /\ \E force_confirm \in {"yes", "no", "invalid"} :
       IF force_confirm = "invalid"
       THEN /\ prompts < MaxPrompts
            /\ prompts' = prompts + 1
            /\ UNCHANGED <<pc, outcome, push>>
       ELSE /\ push_confirm' = force_confirm
            /\ prompts' = 0
            /\ pc' = "done"
            /\ IF force_confirm = "no"
               THEN /\ pushed' = "no"
                    /\ outcome' = "completed"
               ELSE \E push_ok \in BOOLEAN :
                      /\ pushed' = IF push_ok THEN "ok" ELSE "failed"
                      /\ outcome' = IF push_ok THEN "completed" ELSE "push_failed"
  /\ UNCHANGED pure
  /\ UNCHANGED <<args, repo, hist, gen, shown, confirm, rw, bk>>

Next ==
  \/ RestoreOnly
  \/ InitialBackup
  \/ LoadHistory
  \/ ProcessCommit
  \/ UserConfirmsRewrite
  \/ RewriteBegin
  \/ FilterBranch
  \/ ForcePushConfirm

Spec == Init /\ [][Next]_vars

\* ------------------------------------------------------------------------
\* main.py:325-371 on its own: the run from the confirmation gate on, for any
\* commit history the GENERATE loop can hand over when its generation calls
\* return parsed results (a commit without a new message, with an empty one,
\* with a title, a body or both).
NewMessages ==
  {None} \cup {NewDescription([title |-> t, body |-> b]) : t \in {"", "T"}, b \in {"", "B"}}

InitRewrite ==
  /\ PureIdle
  /\ pc = "confirm"
  /\ outcome = "running"
  /\ restore = FALSE
  /\ force_push \in BOOLEAN
  /\ refs \in Snapshots
  /\ refs_backup_file \in {{}} \cup {{s} : s \in Snapshots}
  /\ commits \in {c \in [1..MaxCommits -> [hash : {Hashes[n] : n \in 1..MaxCommits},
                                            message : Messages,
                                            new_message : NewMessages]] :
                     \A n \in 1..MaxCommits : c[n].hash = Hashes[n]}
  /\ diffs = [n \in 1..MaxCommits |-> 0]
  /\ idx = MaxCommits + 1
  /\ calls = [n \in 1..MaxCommits |-> <<>>]
  /\ message_map = <<>>
  /\ script_written = FALSE
  /\ emitted = [n \in 1..MaxCommits |-> None]
  /\ audit_log = <<>>
  /\ log_written = FALSE
  /\ shown = {}
  /\ confirm = "none"
  /\ push_confirm = "none"
  /\ prompts = 0
  /\ pushed = "no"
  /\ filter_branch = "no"
  /\ backup_at_rewrite = {}
  /\ refs_at_rewrite = {}
  /\ refs_at_backup = {refs}
  /\ backup_calls = 1
  /\ last_restore = NoRestore

NextRewrite ==
  \/ UserConfirmsRewrite
  \/ RewriteBegin
  \/ FilterBranch
  \/ ForcePushConfirm

SpecRewrite == InitRewrite /\ [][NextRewrite]_vars

\* ------------------------------------------------------------------------
\* filter_diff (main.py:180-207) on its own, applied once and then again to
\* its own output, for every diff of up to MaxDiffLines lines of DiffLines,
\* with and without a final newline.
PipelineIdle ==
  /\ pc = "idle" /\ outcome = "idle"
  /\ restore = FALSE /\ force_push = FALSE
  /\ refs = [r \in Refs |-> "a"] /\ refs_backup_file = {}
  /\ commits = <<>> /\ diffs = <<>> /\ idx = 1 /\ calls = <<>>
  /\ message_map = <<>> /\ script_written = FALSE /\ emitted = <<>>
  /\ audit_log = <<>> /\ log_written = FALSE
  /\ shown = {} /\ confirm = "none" /\ push_confirm = "none" /\ prompts = 0
  /\ pushed = "no" /\ filter_branch = "no"
  /\ backup_at_rewrite = {} /\ refs_at_rewrite = {} /\ refs_at_backup = {}
  /\ backup_calls = 0 /\ last_restore = NoRestore
pipeline == <<pc, outcome, args, repo, hist, gen, gate, rw, push, bk>>

LineSeqs == UNION {[1..n -> DiffLines] : n \in 0..MaxDiffLines}
Texts == {t \in {ls \o tail : ls \in LineSeqs, tail \in {<<>>, <<EmptyLine>>}} : t # <<>>}

InitFilter ==
  /\ PipelineIdle
  /\ fd_stage = "input" /\ fd_in \in Texts
  /\ fd_out = << <<>> >> /\ fd_again = << <<>> >>
  /\ ck_stage = "idle" /\ ck_len = 0 /\ ck_chunks = <<>>

FilterDiff ==
  /\ fd_stage = "input"
  /\ fd_out' = filter_diff(fd_in)
  /\ fd_stage' = "once"
  /\ UNCHANGED <<pipeline, fd_in, fd_again, ck_stage, ck_len, ck_chunks>>

FilterDiffAgain ==
  /\ fd_stage = "once"
  /\ fd_again' = filter_diff(fd_out)
  /\ fd_stage' = "twice"
  /\ UNCHANGED <<pipeline, fd_in, fd_out, ck_stage, ck_len, ck_chunks>>

NextFilter == FilterDiff \/ FilterDiffAgain

SpecFilter == InitFilter /\ [][NextFilter]_vars

\* ------------------------------------------------------------------------
\* The chunking of generate_commit_multi (utils.py:73) on its own, for every
\* diff length up to MaxDiffLen.
InitChunks ==
  /\ PipelineIdle
  /\ fd_stage = "idle" /\ fd_in = << <<>> >> /\ fd_out = << <<>> >> /\ fd_again = << <<>> >>
  /\ ck_stage = "input" /\ ck_len \in 0..MaxDiffLen /\ ck_chunks = <<>>

SplitIntoChunks ==
  /\ ck_stage = "input"
  /\ ck_chunks' = DiffChunks(ck_len)
  /\ ck_stage' = "done"
  /\ UNCHANGED <<pipeline, fd_stage, fd_in, fd_out, fd_again, ck_len>>

NextChunks == SplitIntoChunks

SpecChunks == InitChunks /\ [][NextChunks]_vars

\* ====================================================================
\* Properties
\* ====================================================================
Ceil(a, b) == (a + b - 1) \div b
Processed(n) == n \in 1..Len(commits) /\ n < idx
OfKind(cs, k) == SelectSeq(cs, LAMBDA c : c.kind = k)
ParsedValues(cs) ==
  LET ok == SelectSeq(cs, LAMBDA c : c.result = "ok")
  IN [m \in 1..Len(ok) |-> ok[m].value]
RewriteStarted == pc = "filter_branch" \/ filter_branch # "no"
RewriteFailed == filter_branch \in {"fail_clean", "fail_dirty"}

\* C1: git filter-branch is started only while the refs backup file exists
\* and holds a snapshot of the references as they are at that moment.
C1_BackupBeforeMutate ==
  RewriteStarted => (backup_at_rewrite # {} /\ backup_at_rewrite = refs_at_rewrite)

\* C2: when git filter-branch fails, restore_refs has been called and the
\* references are what they were when the rewrite started.
C2_FailedRewriteRestores ==
  RewriteFailed => (last_restore.called /\ refs_at_rewrite = {refs})

\* C3: the refs backup file goes away only in a step in which restore_refs
\* succeeded in restoring from it or git filter-branch succeeded.
C3_SnapshotLifetime ==
  [][(refs_backup_file # {} /\ refs_backup_file' = {}) =>
       \/ filter_branch' = "ok"
       \/ (last_restore'.called /\ last_restore'.had_file /\ ~last_restore'.raised)]_vars

\* C4: for every commit the filter script was run on, it printed the
\* replacement when the commit's hash is a key of message_map and the whole
\* original message otherwise.
C4_FilterScriptSubstitutes ==
  \A n \in 1..Len(commits) :
    ~emitted[n].none =>
      emitted[n].text = IF commits[n].hash \in DOMAIN message_map
                        THEN message_map[commits[n].hash]
                        ELSE commits[n].message

\* C5: a restore_refs call that found no backup file warned, raised nothing,
\* ran no git update-ref and left every reference as it was.
C5_RestoreWithoutBackupFile ==
  (last_restore.called /\ ~last_restore.had_file) =>
     /\ last_restore.warned
     /\ ~last_restore.raised
     /\ ~last_restore.update_ref
     /\ last_restore.refs_after = last_restore.refs_before
     /\ last_restore.refs_after = {refs}
     /\ refs_backup_file = {}
     /\ (restore => outcome = "restored")

C5_Witness ==
  /\ restore /\ pc = "done"
  /\ last_restore.called /\ ~last_restore.had_file

C7_DeclineStopsTheRun ==
  /\ confirm = "no" =>
       /\ pc = "done" /\ outcome = "cancelled"
       /\ ~script_written /\ ~RewriteStarted
       /\ pushed = "no" /\ push_confirm = "none"
       /\ ~last_restore.called
       /\ refs_at_backup = {refs}
  /\ (pc = "rewrite" \/ script_written \/ RewriteStarted) => confirm = "yes"

C7_Witness == confirm = "no" /\ pc = "done" /\ prompts = 0 /\ backup_calls = 1

\* C8: an oversized diff gets ceil(len/T) chunk calls and then one combine
\* call, whose input is the list of the chunk results that parsed.
C8_ChunkAndCombineCalls ==
  \A n \in 1..Len(commits) :
    (Processed(n) /\ diffs[n] >= Threshold) =>
      LET ch == OfKind(calls[n], "chunk")
          co == OfKind(calls[n], "combine")
      IN /\ Len(ch) = Ceil(diffs[n], ChunkSize)
         /\ Len(co) = 1
         /\ calls[n] = ch \o co
         /\ co[1].input = ParsedValues(ch)

\* C9: a diff below the threshold, the empty one included, gets exactly one
\* generation call, made with the whole diff, and no combine call.
C9_SmallDiffOneCall ==
  \A n \in 1..Len(commits) :
    (Processed(n) /\ diffs[n] < Threshold) =>
      /\ Len(calls[n]) = 1
      /\ calls[n][1].kind = "single"
      /\ calls[n][1].start = 0 /\ calls[n][1].stop = diffs[n]

C9_Witness ==
  /\ pc = "confirm"
  /\ \E n \in 1..Len(commits) : diffs[n] = 0 /\ Len(calls[n]) = 1
  /\ \E n \in 1..Len(commits) : diffs[n] = Threshold - 1 /\ Len(calls[n]) = 1

\* C10: a commit whose chunk responses all failed to parse has no replacement
\* message and no entry in message_map.
AllChunksUnparsed(n) ==
  /\ Processed(n) /\ diffs[n] >= Threshold
  /\ calls[n] # <<>>
  /\ \A m \in 1..Len(calls[n]) :
       calls[n][m].kind = "chunk" /\ calls[n][m].result \notin {"ok", "ClientError"}

FailedInGenerate(n) ==
  \/ Processed(n) /\ \A m \in 1..Len(calls[n]) : calls[n][m].result # "ok"
  \/ outcome = "generate_failed" /\ idx = n

C11_GenerateFailuresArePerCommit ==
  \A n \in 1..Len(commits) :
    FailedInGenerate(n) =>
      /\ commits[n].new_message = None
      /\ pc = "done" => (idx > Len(commits) /\ confirm # "none")

\* C12 (as claimed): once the rewrite is attempted, the audit log holds the
\* record of every commit that carries a replacement message.
LogRecord(n) ==
  [hash |-> commits[n].hash, old |-> commits[n].message,
   new |-> commits[n].new_message.text]
InAuditLog(rec) == \E m \in 1..Len(audit_log) : audit_log[m] = rec

C13_FilterIdempotent == fd_stage = "twice" => fd_again = fd_out

\* C14: the output of filter_diff is the input's lines, in order, without the
\* lines of the sections whose header matches a section pattern and without
\* the other non-header lines whose extracted path matches a line pattern.
HeaderOf(lines, i) ==
  LET hs == {j \in 1..i : IsSectionHeader(lines[j])}
  IN IF hs = {} THEN 0 ELSE CHOOSE j \in hs : \A k \in hs : k <= j
InIgnoredSection(lines, i) ==
  HeaderOf(lines, i) # 0 /\ MatchesSectionPattern(lines[HeaderOf(lines, i)])
PathIgnored(line) ==
  /\ ~IsSectionHeader(line)
  /\ ExtractPath(line).found
  /\ MatchesLinePattern(ExtractPath(line).file_path)
Survivors(lines) ==
  {i \in 1..Len(lines) : ~InIgnoredSection(lines, i) /\ ~PathIgnored(lines[i])}
Surviving(lines) ==
  [m \in 1..Cardinality(Survivors(lines)) |->
     lines[CHOOSE i \in Survivors(lines) :
             Cardinality({j \in Survivors(lines) : j <= i}) = m]]

OnlySectionIgnoredPath(text) ==
  LET lines == SplitLines(text)
  IN /\ lines # <<>>
     /\ IsSectionHeader(lines[1])
     /\ \A i \in 2..Len(lines) : ~IsSectionHeader(lines[i])
     /\ ExtractPath(lines[1]).found
     /\ MatchesLinePattern(ExtractPath(lines[1]).file_path)

C15_IgnoredFileSectionRemoved ==
  (fd_stage \in {"once", "twice"} /\ OnlySectionIgnoredPath(fd_in)) => fd_out = <<EmptyLine>>

\* C20: the chunks follow one another from offset 0 to len(diff) with no gap
\* and no overlap, none is empty, none is longer than the chunk size, and all
\* but the last have exactly the chunk size.
C20_ChunksPartitionTheDiff ==
  ck_stage = "done" =>
    LET c == ck_chunks
        n == Len(ck_chunks)
    IN /\ (ck_len = 0) = (n = 0)
       /\ n > 0 => (c[1].start = 0 /\ c[n].stop = ck_len)
       /\ \A k \in 1..n :
            /\ c[k].start < c[k].stop
            /\ c[k].stop - c[k].start <= ChunkSize
            /\ k < n => (c[k].stop - c[k].start = ChunkSize /\ c[k + 1].start = c[k].stop)

C20_Witness ==
  /\ ck_stage = "done"
  /\ ck_len = 2 * ChunkSize + 1
  /\ Len(ck_chunks) = 3
  /\ ck_chunks[3] = [start |-> 2 * ChunkSize, stop |-> 2 * ChunkSize + 1]

\* C16: a push is attempted only after git filter-branch succeeded, with
\* --force-push given and "yes" answered at the push prompt; no step at the
\* push prompt, a failed push included, calls restore_refs or moves a
\* reference.
C16_PushOnlyAfterRewrite ==
  /\ [](pushed \in {"ok", "failed"} =>
          /\ filter_branch = "ok"
          /\ force_push
          /\ confirm = "yes"
          /\ push_confirm = "yes"
          /\ last_restore = NoRestore)
  /\ [][pc = "push_gate" => (refs' = refs /\ last_restore' = last_restore)]_vars

C16_Witness ==
  /\ pushed = "failed"
  /\ outcome = "push_failed"
  /\ refs_at_rewrite # {refs}
  /\ last_restore = NoRestore

\* C17: after a successful git filter-branch the refs backup file is what it
\* was when backup_refs returned.
C17_SuccessKeepsBackupFile ==
  filter_branch = "ok" => refs_backup_file = backup_at_rewrite

EarlyFailureIsHarmless ==
  outcome \in {"backup_failed", "load_failed", "crashed"} =>
    /\ pc = "done"
    /\ idx = 1
    /\ \A n \in 1..Len(commits) : calls[n] = <<>>
    /\ confirm = "none" /\ shown = {}
    /\ ~script_written /\ filter_branch = "no" /\ pushed = "no"
    /\ refs_at_backup = {refs}

Phase(p) ==
  CASE p = "start" -> 0
    [] p = "load" -> 1
    [] p = "generate" -> 2
    [] p = "confirm" -> 3
    [] p = "rewrite" -> 4
    [] p = "filter_branch" -> 4
    [] p = "push_gate" -> 5
    [] p = "done" -> 6

C21_SequentialGeneration ==
  /\ \A n \in 1..Len(commits) : calls[n] # <<>> => n <= idx
  /\ \A n \in 1..Len(commits) :
       (Processed(n) /\ diffs[n] >= Threshold) =>
         LET log == calls[n]
             nchunks == Len(DiffChunks(diffs[n]))
         IN /\ \A i \in 1..Len(log) :
                 /\ log[i].kind \in {"chunk", "combine"}
                 /\ log[i].kind = "chunk" =>
                      (i <= nchunks /\ log[i].index = i - 1 /\ log[i].partial = (i # nchunks))
                 /\ log[i].kind = "combine" =>
                      (i = nchunks + 1 /\ log[i].input = ParsedValues(SubSeq(log, 1, nchunks)))
            /\ (\A i \in 1..Len(log) : log[i].result # "ClientError") => Len(log) >= nchunks

\* C22: a commit whose replacement is the empty string is not listed at the
\* confirmation gate, has no record in the audit log and no entry in
\* message_map, and the message the filter script prints for it is its
\* original message.
EmptyReplacement(n) == commits[n].new_message = Str(<<>>)

====
